---- MODULE Spec2Model ----
(***************************************************************************)
(* Model of serlogger.py: a serial logger that reads "temp,co2" lines,     *)
(* appends them to three global lists, optionally to a CSV file, and       *)
(* redraws a rolling-window plot on a FuncAnimation timer.                 *)
(*                                                                         *)
(* Text is modelled as sequences of one-character strings.  A float is     *)
(* modelled as an exact decimal <<mantissa, fractionDigits>> in normal     *)
(* form (no trailing fraction zero), which is faithful for the short       *)
(* decimal strings used here.  The elapsed clock counts thirds of a        *)
(* hundredth of a second, so that '%.2f' has something to round and never  *)
(* meets an exact tie.                                                     *)
(***************************************************************************)
EXTENDS Integers, Sequences, FiniteSets, TLC

\* ---------------------------------------------------------------- bounds
MaxLineLen == 2
MaxFrames == 4
MaxClock == 5
MaxStore == 16
MaxN == 16

\* ------------------------------------------------------ program constants
WINDOW == 15

\* ------------------------------------------------------------- the input
\* Characters of the exhaustively enumerated lines: a digit, the delimiter,
\* a non-numeric character and whitespace.
Chars == {"1", ",", "x", " "}

AllLines == UNION {[1..n -> Chars] : n \in 0..MaxLineLen}

\* Longer lines the port can deliver, one per case of the parser.
ExtraLines ==
    { <<"1", ",", "1">>,
      <<"1", ".", "0", ",", "1", "\n">>,
      <<"-", "2", ".", "5", ",", " ", "1", "\n">>,
      <<"1", ",", "2", ",", "3", "\n">>,
      <<"1", ".", "5", ",", "x", "\n">>,
      <<"1", ".", ".", "2", ",", "1", "\n">>,
      <<"1", ",", "-", "\n">>,
      <<"1", " ", "2", ",", "3", "\n">> }

Lines == AllLines \cup ExtraLines

\* ------------------------------------------------------- text primitives
IsSpace(c) == c \in {" ", "\n", "\r", "\t"}

RECURSIVE LStrip(_)
LStrip(s) == IF s # <<>> /\ IsSpace(Head(s)) THEN LStrip(Tail(s)) ELSE s

RECURSIVE RStrip(_)
RStrip(s) ==
    IF s # <<>> /\ IsSpace(s[Len(s)]) THEN RStrip(SubSeq(s, 1, Len(s) - 1)) ELSE s

\* str.strip()
Strip(s) == RStrip(LStrip(s))

\* str.split(','): one field more than there are delimiters
RECURSIVE Split(_)
Split(s) ==
    IF s = <<>> THEN << <<>> >>
    ELSE LET rest == Split(Tail(s)) IN
         IF Head(s) = "," THEN << <<>> >> \o rest
         ELSE << (<<Head(s)>> \o Head(rest)) >> \o Tail(rest)

Digits == {"0", "1", "2", "3", "4", "5", "6", "7", "8", "9"}

DigitVal(c) ==
    CASE c = "0" -> 0 [] c = "1" -> 1 [] c = "2" -> 2 [] c = "3" -> 3
      [] c = "4" -> 4 [] c = "5" -> 5 [] c = "6" -> 6 [] c = "7" -> 7
      [] c = "8" -> 8 [] c = "9" -> 9

DigitChar(d) == <<"0", "1", "2", "3", "4", "5", "6", "7", "8", "9">>[d + 1]

\* float() ignores surrounding whitespace and one leading sign
Unsigned(f) ==
    LET t == Strip(f) IN
    IF t # <<>> /\ Head(t) \in {"+", "-"} THEN Tail(t) ELSE t

IsNegative(f) == LET t == Strip(f) IN t # <<>> /\ Head(t) = "-"

CountOf(s, c) == Cardinality({i \in 1..Len(s) : s[i] = c})

\* The strings float() converts, over this alphabet: digits with at most
\* one point and at least one digit.  (Exponents, inf, nan and digit
\* underscores need characters no modelled line contains.)
IsFloat(f) ==
    LET u == Unsigned(f) IN
    /\ \A i \in 1..Len(u) : u[i] \in Digits \cup {"."}
    /\ CountOf(u, ".") <= 1
    /\ \E i \in 1..Len(u) : u[i] \in Digits

RECURSIVE DigitsValue(_)
DigitsValue(s) ==
    IF s = <<>> THEN 0
    ELSE IF s[Len(s)] = "." THEN DigitsValue(SubSeq(s, 1, Len(s) - 1))
    ELSE 10 * DigitsValue(SubSeq(s, 1, Len(s) - 1)) + DigitVal(s[Len(s)])

FracLen(u) ==
    IF CountOf(u, ".") = 0 THEN 0
    ELSE Len(u) - (CHOOSE i \in 1..Len(u) : u[i] = ".")

RECURSIVE Normalize(_, _)
Normalize(m, k) ==
    IF m = 0 THEN <<0, 0>>
    ELSE IF k > 0 /\ m % 10 = 0 THEN Normalize(m \div 10, k - 1)
    ELSE <<m, k>>

\* float(f) for a convertible f
ParseFloat(f) ==
    LET u == Unsigned(f)
        m == DigitsValue(u)
    IN Normalize(IF IsNegative(f) THEN 0 - m ELSE m, FracLen(u))

RECURSIVE NatChars(_)
NatChars(n) ==
    IF n < 10 THEN <<DigitChar(n)>>
    ELSE NatChars(n \div 10) \o <<DigitChar(n % 10)>>

RECURSIVE Pow10(_)
Pow10(k) == IF k = 0 THEN 1 ELSE 10 * Pow10(k - 1)

RECURSIVE PadFrac(_, _)
PadFrac(s, k) == IF Len(s) >= k THEN s ELSE PadFrac(<<"0">> \o s, k)

\* str(x) of a float, what csv.writer would write for a non-string field:
\* always shows a point and a fraction digit
Repr(v) ==
    LET m == IF v[1] < 0 THEN 0 - v[1] ELSE v[1]
        k == v[2]
        ip == NatChars(m \div Pow10(k))
        fp == IF k = 0 THEN <<"0">> ELSE PadFrac(NatChars(m % Pow10(k)), k)
    IN (IF v[1] < 0 THEN <<"-">> ELSE <<>>) \o ip \o <<".">> \o fp

\* '%.2f' % elapsed, as a count of hundredths; the clock counts thirds of
\* a hundredth, rounded to the nearest hundredth.
Format2Swapped(e) == 0 - ((2 * e + 3) \div 6)

Format2(e) == (2 * e + 3) \div 6

\* Python's seq[start:] for any integer start
PySliceFrom(s, start) ==
    LET a == IF start < 0 THEN start + Len(s) ELSE start
        b == IF a < 0 THEN 0 ELSE IF a > Len(s) THEN Len(s) ELSE a
    IN SubSeq(s, b + 1, Len(s))

WindowFirst(s, n) == SubSeq(s, 1, IF n < Len(s) THEN n ELSE Len(s))

Window(s, n) == PySliceFrom(s, 0 - n)

\* ------------------------------------------------------------- the state
VARIABLES
    pc,          \* where the script is: start, noport, running, fatal,
                 \* stopped, closed, final, done
    portOpen,    \* the serial handle is open
    timerOn,     \* the animation's timer callback is installed
    now,         \* time.time() - startTime, in clock units
    frame,       \* number of update_plot / readData invocations so far
    data,        \* readData's local: the fields of the line last read
    timePoints,  \* global list of '%.2f' elapsed times (hundredths)
    tempValues,  \* global list of parsed temperatures
    co2Values,   \* global list of parsed CO2 values
    rows,        \* rows of the CSV file FILENAME
    livePlot,    \* what the two live axes show: <<times, temps, co2s>>
    finalPlot,   \* what the final figure shows: <<times, temps, co2s>>
    finalRuns,   \* how many times the final figure was drawn
    csvOut,      \* readData's csvOut argument
    winN         \* the window length a redraw uses

vars == <<pc, portOpen, timerOn, now, frame, data, timePoints, tempValues, co2Values,
          rows, livePlot, finalPlot, finalRuns, csvOut, winN>>

NoPlot == << <<>>, <<>>, <<>> >>

\* ------------------------------------------------------------ operations
HasAtLeastTwoFields(d) == Len(d) >= 2

HasTwoFields(d) == Len(d) = 2

PrependValue(seq, v) == <<v>> \o seq

AppendValue(seq, v) == Append(seq, v)

CsvRowParsed(timeVal, d) ==
    <<timeVal, Repr(ParseFloat(d[1])), Repr(ParseFloat(d[2]))>>

CsvRow(timeVal, d) == <<timeVal, d[1], d[2]>>

\* readData(port, csvOut) on the line l, with the statements in the order
\* of the source: the time is appended before either float() is attempted.
ReadData(l, csv) ==
    LET d == Split(Strip(l))
        timeVal == Format2(now)
    IN /\ data' = d
       /\ IF HasTwoFields(d)
          THEN IF ~IsFloat(d[1])
               THEN /\ timePoints' = AppendValue(timePoints, timeVal)
                    /\ UNCHANGED <<tempValues, co2Values, rows>>
                    /\ pc' = "fatal"
               ELSE IF ~IsFloat(d[2])
               THEN /\ timePoints' = AppendValue(timePoints, timeVal)
                    /\ tempValues' = AppendValue(tempValues, ParseFloat(d[1]))
                    /\ UNCHANGED <<co2Values, rows>>
                    /\ pc' = "fatal"
               ELSE /\ timePoints' = AppendValue(timePoints, timeVal)
                    /\ tempValues' = AppendValue(tempValues, ParseFloat(d[1]))
                    /\ co2Values' = AppendValue(co2Values, ParseFloat(d[2]))
                    /\ rows' = IF csv THEN Append(rows, CsvRow(timeVal, d))
                               ELSE rows
                    /\ pc' = pc
          ELSE UNCHANGED <<timePoints, tempValues, co2Values, rows, pc>>

\* the two ax.plot calls of update_plot
Redraw(n) ==
    livePlot' = <<Window(timePoints', n), Window(tempValues', n),
                  Window(co2Values', n)>>

\* openPort() succeeds; startTime is taken and the animation starts
OpenPortOk ==
    /\ pc = "start"
    /\ pc' = "running"
    /\ portOpen' = TRUE
    /\ timerOn' = TRUE
    /\ now' = 0
    /\ UNCHANGED <<frame, data, timePoints, tempValues, co2Values, rows,
                   livePlot, finalPlot, finalRuns, csvOut, winN>>

\* openPort() catches SerialException and exits
OpenPortFail ==
    /\ pc = "start"
    /\ pc' = "noport"
    /\ UNCHANGED <<portOpen, timerOn, now, frame, data, timePoints, tempValues,
                   co2Values, rows, livePlot, finalPlot, finalRuns, csvOut,
                   winN>>

\* the wall clock moves on while the window is shown (time.time() is
\* taken never to step backwards)
ClockAdvance ==
    /\ pc = "running"
    /\ now < MaxClock
    /\ now' = now + 1
    /\ UNCHANGED <<pc, portOpen, timerOn, frame, data, timePoints, tempValues,
                   co2Values, rows, livePlot, finalPlot, finalRuns, csvOut,
                   winN>>

\* one timer tick: update_plot(frame), while an event loop runs and the
\* animation's callback is installed.  exit() inside readData ends the
\* process before anything is redrawn.  The axes' limits, labels, target
\* lines and readout text hold no data of their own and are left out.
Tick(l) ==
    /\ timerOn
    /\ pc \in {"running", "final"}
    /\ frame < MaxFrames
    /\ frame' = frame + 1
    /\ ReadData(l, FALSE)
    /\ IF pc' = "fatal" THEN livePlot' = livePlot ELSE Redraw(WINDOW)
    /\ UNCHANGED <<portOpen, timerOn, now, finalPlot, finalRuns, csvOut, winN>>

CloseDisplayKeepsTimer ==
    /\ pc = "running"
    /\ pc' = "stopped"
    /\ UNCHANGED <<portOpen, timerOn, now, frame, data, timePoints,
                   tempValues, co2Values, rows, livePlot, finalPlot,
                   finalRuns, csvOut, winN>>

\* the window is closed: the animation removes its timer callback on the
\* close event and plt.show() returns
CloseDisplay ==
    /\ pc = "running"
    /\ pc' = "stopped"
    /\ timerOn' = FALSE
    /\ UNCHANGED <<portOpen, now, frame, data, timePoints, tempValues,
                   co2Values, rows, livePlot, finalPlot, finalRuns, csvOut,
                   winN>>

PortCloseSkipped ==
    /\ pc = "stopped"
    /\ pc' = "closed"
    /\ UNCHANGED <<portOpen, timerOn, now, frame, data, timePoints,
                   tempValues, co2Values, rows, livePlot, finalPlot,
                   finalRuns, csvOut, winN>>

\* port.close()
PortClose ==
    /\ pc = "stopped"
    /\ pc' = "closed"
    /\ portOpen' = FALSE
    /\ UNCHANGED <<timerOn, now, frame, data, timePoints, tempValues, co2Values,
                   rows, livePlot, finalPlot, finalRuns, csvOut, winN>>

\* the final figure: plt.plot of the whole lists, then plt.show()
FinalRender ==
    /\ pc = "closed"
    /\ pc' = "final"
    /\ finalPlot' = <<timePoints, tempValues, co2Values>>
    /\ finalRuns' = finalRuns + 1
    /\ UNCHANGED <<portOpen, timerOn, now, frame, data, timePoints, tempValues,
                   co2Values, rows, livePlot, csvOut, winN>>

\* the viewer dismisses the final figure and the script ends
DismissFinal ==
    /\ pc = "final"
    /\ pc' = "done"
    /\ UNCHANGED <<portOpen, timerOn, now, frame, data, timePoints, tempValues,
                   co2Values, rows, livePlot, finalPlot, finalRuns, csvOut,
                   winN>>

Init ==
    /\ pc = "start"
    /\ portOpen = FALSE
    /\ timerOn = FALSE
    /\ now = 0
    /\ frame = 0
    /\ data = <<>>
    /\ timePoints = <<>>
    /\ tempValues = <<>>
    /\ co2Values = <<>>
    /\ rows = <<>>
    /\ livePlot = NoPlot
    /\ finalPlot = NoPlot
    /\ finalRuns = 0
    /\ csvOut = FALSE
    /\ winN = WINDOW

Next ==
    \/ OpenPortOk
    \/ OpenPortFail
    \/ ClockAdvance
    \/ \E l \in Lines : Tick(l)
    \/ CloseDisplay
    \/ PortClose
    \/ FinalRender
    \/ DismissFinal

Spec == Init /\ [][Next]_vars

\* ------------------------------------------- readData called on its own
\* readData(port, csvOut) called repeatedly with either value of csvOut,
\* on an open port, until it exits the process.
CallReadData(l) ==
    /\ pc = "running"
    /\ frame < MaxFrames
    /\ frame' = frame + 1
    /\ ReadData(l, csvOut)
    /\ UNCHANGED <<portOpen, timerOn, now, livePlot, finalPlot, finalRuns, csvOut,
                   winN>>

InitReadData ==
    /\ pc = "running"
    /\ portOpen = TRUE
    /\ timerOn = FALSE
    /\ now = 0
    /\ frame = 0
    /\ data = <<>>
    /\ timePoints = <<>>
    /\ tempValues = <<>>
    /\ co2Values = <<>>
    /\ rows = <<>>
    /\ livePlot = NoPlot
    /\ finalPlot = NoPlot
    /\ finalRuns = 0
    /\ csvOut \in BOOLEAN
    /\ winN = WINDOW

NextReadData ==
    \/ ClockAdvance
    \/ \E l \in Lines : CallReadData(l)

SpecReadData == InitReadData /\ [][NextReadData]_vars

\* ------------------------------------------------ the window on its own
\* A store of k samples (sample i stamped i, reading i and -i) redrawn
\* once with a window of winN.
RedrawOnce ==
    /\ pc = "running"
    /\ frame = 0
    /\ frame' = 1
    /\ UNCHANGED <<timePoints, tempValues, co2Values>>
    /\ Redraw(winN)
    /\ UNCHANGED <<pc, portOpen, timerOn, now, data, rows, finalPlot, finalRuns,
                   csvOut, winN>>

InitWindow ==
    /\ pc = "running"
    /\ portOpen = TRUE
    /\ timerOn = FALSE
    /\ now = 0
    /\ frame = 0
    /\ data = <<>>
    /\ \E k \in 0..MaxStore :
          /\ timePoints = [i \in 1..k |-> i]
          /\ tempValues = [i \in 1..k |-> <<i, 0>>]
          /\ co2Values = [i \in 1..k |-> <<0 - i, 0>>]
    /\ rows = <<>>
    /\ livePlot = NoPlot
    /\ finalPlot = NoPlot
    /\ finalRuns = 0
    /\ csvOut = FALSE
    /\ winN \in 1..MaxN

NextWindow == RedrawOnce

SpecWindow == InitWindow /\ [][NextWindow]_vars

\* ================================================================ claims
\* A step that is one invocation of readData
IsCall == frame' = frame + 1

FieldCount(d) == Len(d)

BothNumeric(d) == FieldCount(d) = 2 /\ IsFloat(d[1]) /\ IsFloat(d[2])

SomeNonNumeric(d) == FieldCount(d) = 2 /\ ~(IsFloat(d[1]) /\ IsFloat(d[2]))

EqualLengths ==
    /\ Len(timePoints) = Len(tempValues)
    /\ Len(tempValues) = Len(co2Values)

StoreUnchanged ==
    /\ timePoints' = timePoints
    /\ tempValues' = tempValues
    /\ co2Values' = co2Values

IsPrefixOf(old, new) ==
    /\ Len(new) = Len(old) + 1
    /\ SubSeq(new, 1, Len(old)) = old

\* C1: in every reachable state of a session, the fatal one included, the
\* time, temperature and CO2 sequences have equal length.
C1_EqualLengthAlways == EqualLengths

\* C2: a two-field line with a field that is not a float terminates the
\* process and appends nothing: none of the three sequences gains an
\* element and no CSV row is written.
C2_BadNumberAppendsNothing ==
    [][(IsCall /\ SomeNonNumeric(data'))
         => (pc' = "fatal" /\ StoreUnchanged /\ rows' = rows)]_vars

\* C3: a line whose field count is not 2 leaves the store and the log
\* unchanged, raises no error and leaves the session running.
C3_WrongArityIsNoOp ==
    [][(IsCall /\ FieldCount(data') # 2)
         => (StoreUnchanged /\ rows' = rows /\ pc' = pc /\ pc' = "running")]_vars

C3_Witness ==
    /\ frame = MaxFrames
    /\ data = << <<>> >>
    /\ pc = "running"
    /\ csvOut
    /\ Len(rows) = 1
    /\ Len(co2Values) = 1

\* C4: a line with exactly two numeric fields makes each of the three
\* sequences one longer by appending at the end; the lengths are equal
\* before and after the call and the earlier elements are unchanged.
C4_ValidLineAppendsOne ==
    [][(IsCall /\ BothNumeric(data'))
         => /\ EqualLengths
            /\ EqualLengths'
            /\ IsPrefixOf(timePoints, timePoints')
            /\ IsPrefixOf(tempValues, tempValues')
            /\ IsPrefixOf(co2Values, co2Values')]_vars

C4_Witness ==
    /\ frame >= 2
    /\ BothNumeric(data)
    /\ Len(co2Values) >= 2
    /\ timePoints[1] # timePoints[2]
    /\ tempValues[1] # tempValues[2]
    /\ pc = "running"

C5_RowsMatchStore ==
    csvOut =>
      /\ Len(rows) = Len(co2Values)
      /\ \A i \in 1..Len(rows) :
            /\ rows[i][1] = timePoints[i]
            /\ IsFloat(rows[i][2]) /\ ParseFloat(rows[i][2]) = tempValues[i]
            /\ IsFloat(rows[i][3]) /\ ParseFloat(rows[i][3]) = co2Values[i]

C5_RowIsRawLine ==
    (csvOut /\ IsCall)
      => IF BothNumeric(data')
         THEN rows' = Append(rows, <<timePoints'[Len(timePoints')],
                                     data'[1], data'[2]>>)
         ELSE rows' = rows

\* C5: with csvOut true the rows of the log are exactly, in append order,
\* the (elapsed time, raw temperature field, raw CO2 field) of the accepted
\* samples: one row per accepted sample, the fields being the strings read
\* and not the parsed floats, and no row for any other line.
C5_LogRoundTrip == [](C5_RowsMatchStore) /\ [][C5_RowIsRawLine]_vars

C5_Witness ==
    /\ csvOut
    /\ frame = MaxFrames
    /\ Len(rows) = 2
    /\ \E i \in 1..Len(rows) : rows[i][2] # Repr(tempValues[i])
    /\ \E i \in 1..Len(rows) : rows[i][3] # Repr(ParseFloat(rows[i][3]))
    /\ rows[1] # rows[2]

\* C6: every sample a timer tick accepts into the store is also written
\* to the session's CSV file: after every tick the number of log rows
\* equals the number of samples in the store.
C6_TickLogsEverySample ==
    pc = "running" => Len(rows) = Len(co2Values)

\* C7: the elapsed times of the appended samples never decrease in
\* insertion order (the clock of the model never goes backwards).
C7_TimesNonDecreasing ==
    \A i \in 1..Len(timePoints) : \A j \in 1..Len(timePoints) :
        i < j => timePoints[i] <= timePoints[j]

C7_Witness ==
    /\ Len(timePoints) >= 2
    /\ timePoints[1] < timePoints[Len(timePoints)]
    /\ Len(co2Values) = Len(timePoints)

MinOf(a, b) == IF a < b THEN a ELSE b

IsLastOf(out, s, n) ==
    /\ Len(out) = MinOf(n, Len(s))
    /\ \A k \in 1..Len(out) : out[k] = s[Len(s) - Len(out) + k]

\* C8: for every store size and n >= 1, the window holds exactly
\* min(n, size) elements of each sequence: the most recently appended
\* ones, in insertion order, the same index range for all three.
C8_WindowIsSuffix ==
    frame = 1 =>
      /\ IsLastOf(livePlot[1], timePoints, winN)
      /\ IsLastOf(livePlot[2], tempValues, winN)
      /\ IsLastOf(livePlot[3], co2Values, winN)
      /\ Len(livePlot[1]) = Len(livePlot[2])
      /\ Len(livePlot[2]) = Len(livePlot[3])

C8_Witness ==
    /\ frame = 1
    /\ winN = WINDOW
    /\ Len(timePoints) > WINDOW
    /\ Len(livePlot[1]) = WINDOW
    /\ livePlot[1][1] = timePoints[Len(timePoints) - WINDOW + 1]

Stopped == {"stopped", "closed", "final", "done"}

C9_FinalOnceAfterStop ==
    /\ finalRuns <= 1
    /\ (finalRuns > 0 => pc \in {"final", "done"})
    /\ (pc \in {"final", "done"}
          => /\ finalRuns = 1
             /\ finalPlot = <<timePoints, tempValues, co2Values>>)

C9_NothingReadAfterStop ==
    pc \in Stopped
      => /\ StoreUnchanged
         /\ frame' = frame
         /\ data' = data
         /\ pc' \in Stopped

\* C9: in a session ended by closing the display the final figure is
\* drawn exactly once and only after the live renderer stopped; nothing is
\* read or appended after that, so the final figure shows the whole store.
C9_FinalRendererRunsOnce ==
    [](C9_FinalOnceAfterStop) /\ [][C9_NothingReadAfterStop]_vars

C9_Witness ==
    /\ pc = "done"
    /\ finalRuns = 1
    /\ Len(finalPlot[1]) = MaxFrames
    /\ finalPlot[2][1] # finalPlot[2][2]

C10_PortState ==
    /\ (pc = "fatal" => portOpen /\ finalRuns = 0)
    /\ (finalRuns > 0 => ~portOpen)
    /\ (pc \in {"final", "done"} => ~portOpen)

C10_CloseOnlyAfterStop ==
    (portOpen /\ ~portOpen') => (pc = "stopped" /\ finalRuns = 0)

\* C10: the serial handle is released only on the display-close path: a
\* conversion failure ends the process with the port open and no final
\* figure, and on display close the port is closed before the final figure.
C10_PortReleasedOnlyOnClose ==
    [](C10_PortState) /\ [][C10_CloseOnlyAfterStop]_vars

C10_Witness ==
    /\ pc = "fatal"
    /\ portOpen
    /\ SomeNonNumeric(data)
    /\ Len(co2Values) >= 1

====
